---- MODULE Spec2Model ----
(***************************************************************************)
(* Model of the ant-farm World: a bit-packed tile grid (Uint32Array over   *)
(* an ArrayBuffer) and named entity layers, each a membership set plus a   *)
(* quadtree.  src/src/models/world.ts is modelled line by line; Quadtree,  *)
(* Rectangle and Entity are imported by world.ts from files that are not   *)
(* part of the sources at hand and are modelled from the written design.   *)
(***************************************************************************)
EXTENDS Integers, Sequences, FiniteSets, TLC

(***************************************************************************)
(* Bounds of the model.                                                    *)
(***************************************************************************)
MaxDim == 2         \* width of the grid ranges over 1..MaxDim
MaxTileOps == 1     \* grid specification: tile writes after construction
MaxInserts == 1     \* layer specification: calls of insert after the first population
MaxRemoves == 1     \* layer specification: calls of remove
MaxMoves == 1       \* layer specification: position changes made by the caller
MaxDepth == 3       \* layer specification: depth of the deepest quadtree node
MaxChanges == 1     \* query specification: inserts, removes and moves in a run

(***************************************************************************)
(* Program constants.                                                      *)
(***************************************************************************)
quadtreeCapacity == 4
DEFAULT_LAYER_ID == "DEFAULT"
UNDEF == "undefined"

\* what a call returns: nothing, null, or an entity
RetUndefined == [type |-> "undefined"]
RetNull == [type |-> "null"]
RetEntity(e) == [type |-> "entity", entity |-> e]
RetList(found) == [type |-> "list", found |-> found]

VARIABLES
  pc,            \* "new" before the constructor ran, "live" after, "thrown" after an exception
  width, height, \* World.width, World.height
  data,          \* World.data: the ArrayBuffer (identity, byteLength, 32-bit words)
  entities,      \* World.entities: the global list
  entityLayers,  \* World.entityLayers: insertion-ordered map layerId -> Layer
  pos,           \* Entity.pos of every entity (owned by the caller)
  last,          \* the last call made, its arguments, and for setTileProp the grid before it
  ret,           \* what the last call returned
  removed,       \* <<entity, layerId>> removed from a layer and not inserted into it since
  count          \* calls made so far, by kind (bounds the exploration)

vars == <<pc, width, height, data, entities, entityLayers, pos, last, ret, removed, count>>

(***************************************************************************)
(* 32-bit words.  A word is a tuple of 32 bits, least significant first:   *)
(* an int32 and the uint32 with the same bits are the same tuple, which is *)
(* what ToInt32 / ToUint32 do to each other's values.                      *)
(***************************************************************************)
Word == 1..32

Pow2(n) == 2 ^ n

\* ToInt32 of a non-negative integer below 2^31 (bit 31 is then 0).
ToInt32(n) == [i \in Word |-> IF i = 32 THEN 0 ELSE (n \div Pow2(i - 1)) % 2]

\* the number a word stands for as a uint32, defined when bit 31 is 0
RECURSIVE SumBits(_, _)
SumBits(w, i) == IF i = 0 THEN 0 ELSE w[i] * Pow2(i - 1) + SumBits(w, i - 1)

ToNumber(w) == SumBits(w, 31)

BitAnd(a, b) == [i \in Word |-> a[i] * b[i]]
BitOr(a, b) == [i \in Word |-> IF a[i] = 1 \/ b[i] = 1 THEN 1 ELSE 0]
BitNot(a) == [i \in Word |-> 1 - a[i]]
\* a << n : bits shifted out at the top are lost
ShiftLeft(a, n) == [i \in Word |-> IF i - n >= 1 THEN a[i - n] ELSE 0]
\* a >>> n : zero fill
ShiftRightU(a, n) == [i \in Word |-> IF i + n <= 32 THEN a[i + n] ELSE 0]

ZeroWord == [i \in Word |-> 0]
AllOnes == [i \in Word |-> 1]               \* 0xffffffff
HighBit == [i \in Word |-> IF i = 32 THEN 1 ELSE 0]   \* 0x80000000

(***************************************************************************)
(* World.bitScheme                                                         *)
(***************************************************************************)
\* a scheme whose terrain mask is one bit too wide and runs into homeTrail
bitSchemeWideTerrain ==
  [ entityType |-> [length |-> 4,  offset |-> 0,  mask |-> 15],
    entityId   |-> [length |-> 12, offset |-> 4,  mask |-> 65520],
    terrain    |-> [length |-> 2,  offset |-> 16, mask |-> 458752],
    homeTrail  |-> [length |-> 3,  offset |-> 18, mask |-> 1835008],
    foodTrail  |-> [length |-> 3,  offset |-> 21, mask |-> 14680064] ]

bitScheme ==
  [ entityType |-> [length |-> 4,  offset |-> 0,  mask |-> 15],
    entityId   |-> [length |-> 12, offset |-> 4,  mask |-> 65520],
    terrain    |-> [length |-> 2,  offset |-> 16, mask |-> 196608],
    homeTrail  |-> [length |-> 3,  offset |-> 18, mask |-> 1835008],
    foodTrail  |-> [length |-> 3,  offset |-> 21, mask |-> 14680064] ]

Properties == DOMAIN bitScheme

\* static getBitValue(tile, property): (tile & mask) >>> offset
getBitValue(tile, property) ==
  ToNumber(ShiftRightU(BitAnd(tile, ToInt32(bitScheme[property].mask)),
                       bitScheme[property].offset))

\* a setBitValue that forgets to clear the field before OR-ing the value in
setBitValueNoClear(tile, property, value) ==
  BitOr(ShiftLeft(ToInt32(value), bitScheme[property].offset), tile)

\* a setBitValue that clears with the mask instead of its complement
setBitValueKeepsField(tile, property, value) ==
  BitOr(ShiftLeft(ToInt32(value), bitScheme[property].offset),
        BitAnd(tile, ToInt32(bitScheme[property].mask)))

\* a setBitValue that cuts the value down to the width of the field first
setBitValueTruncates(tile, property, value) ==
  BitOr(BitAnd(ShiftLeft(ToInt32(value), bitScheme[property].offset),
               ToInt32(bitScheme[property].mask)),
        BitAnd(tile, BitNot(ToInt32(bitScheme[property].mask))))

\* static setBitValue(tile, property, value): (value << offset) | (tile & ~mask)
setBitValue(tile, property, value) ==
  BitOr(ShiftLeft(ToInt32(value), bitScheme[property].offset),
        BitAnd(tile, BitNot(ToInt32(bitScheme[property].mask))))

(***************************************************************************)
(* The grid: a Uint32Array view of World.data, so a write through the grid *)
(* is a write to the buffer.  Index i of the typed array is words[i + 1].  *)
(***************************************************************************)
grid == data.words

\* y * width + x is an index of the typed array
InArray(x, y) == y * width + x + 1 \in DOMAIN grid

\* typed-array read: an index outside the array reads undefined
getTileRaw(x, y) == IF InArray(x, y) THEN grid[y * width + x + 1] ELSE UNDEF

\* getBitValue(this.getTileRaw(x, y), property): an undefined tile (index outside
\* the array) is 0 under the ToInt32 of tile & mask
getTileProp(x, y, property) ==
  getBitValue(IF InArray(x, y) THEN getTileRaw(x, y) ELSE ZeroWord, property)

\* a store that addresses the grid column-major
storeColumnMajor(g, x, y, value) ==
  IF x * width + y + 1 \in DOMAIN g THEN [g EXCEPT ![x * width + y + 1] = value] ELSE g

\* typed-array store at y*width + x: an index outside the array stores nothing
store(g, x, y, value) ==
  IF y * width + x + 1 \in DOMAIN g THEN [g EXCEPT ![y * width + x + 1] = value] ELSE g

(***************************************************************************)
(* Arguments of the constructor.  A JavaScript argument is undefined, an   *)
(* Entity[] or an ArrayBuffer; an ArrayBuffer has an identity, a byte      *)
(* length and contents (its whole 32-bit words).                           *)
(***************************************************************************)
Undefined == [kind |-> "undefined"]
EntityArray(items) == [kind |-> "array", items |-> items]
\* contents of a buffer, by 32-bit word: zeroes, u32a[i] = i as the tests fill it,
\* every tile 0xe009, every tile 0xffffffff
Fill(fill, i) ==
  CASE fill = "zero" -> ZeroWord
    [] fill = "index" -> ToInt32(i)
    [] fill = "e009" -> ToInt32(57353)
    [] fill = "ones" -> AllOnes

ArrayBuffer(id, byteLength, fill) ==
  [kind |-> "buffer", id |-> id, byteLength |-> byteLength,
   words |-> [i \in 1..(byteLength \div 4) |-> Fill(fill, i - 1)]]

Truthy(arg) == arg.kind # "undefined"

\* the buffers a caller hands in: the right size, one byte short, one tile long
SuppliedBuffers(w, h) ==
  { ArrayBuffer("arg", w * h * 4, "index"),
    ArrayBuffer("arg", w * h * 4, "e009"),
    ArrayBuffer("arg", w * h * 4, "ones"),
    ArrayBuffer("arg", w * h * 4 - 1, "index"),
    ArrayBuffer("arg", w * h * 4 + 4, "index") }

\* the buffers of the tests: index-filled, right or wrong in size
TestBuffers(w, h) ==
  {b \in SuppliedBuffers(w, h) : b.words = [i \in DOMAIN b.words |-> Fill("index", i - 1)]}

NoBuffer == [kind |-> "buffer", id |-> "none", byteLength |-> 0, words |-> <<>>]

NoCount == [tile |-> 0, insert |-> 0, remove |-> 0, move |-> 0]

\* a size check that only rejects buffers that are too small
WrongSizeIfSmaller(worldData, byteLength) == worldData.byteLength < byteLength

\* worldData.byteLength !== byteLength
WrongSize(worldData, byteLength) == worldData.byteLength # byteLength

(***************************************************************************)
(* new World(width, height, entities?, worldData?)                         *)
(***************************************************************************)
Construct(w, h, entitiesArg, worldData) ==
  /\ pc = "new"
  /\ width' = w
  /\ height' = h
  /\ entities' = IF Truthy(entitiesArg)
                   THEN (IF entitiesArg.kind = "array" THEN entitiesArg.items ELSE entitiesArg)
                   ELSE <<>>
  /\ entityLayers' = <<>>
  /\ IF Truthy(worldData)
       THEN IF WrongSize(worldData, w * h * 4)
              THEN /\ pc' = "thrown"
                   /\ data' = data
              ELSE /\ pc' = "live"
                   /\ data' = worldData
       ELSE /\ pc' = "live"
            /\ data' = ArrayBuffer("fresh", w * h * 4, "zero")
  /\ last' = [op |-> "new", args |-> <<w, h, entitiesArg, worldData>>]
  /\ ret' = RetUndefined
  /\ UNCHANGED <<pos, removed, count>>

(***************************************************************************)
(* setTileRaw(x, y, value): this.grid[y * this.width + x] = value          *)
(***************************************************************************)
SetTileRaw(x, y, value) ==
  /\ pc = "live"
  /\ count.tile < MaxTileOps
  /\ data' = [data EXCEPT !.words = store(grid, x, y, value)]
  /\ last' = [op |-> "setTileRaw", args |-> <<x, y, value>>]
  /\ ret' = RetUndefined
  /\ count' = [count EXCEPT !.tile = @ + 1]
  /\ UNCHANGED <<pc, width, height, entities, entityLayers, pos, removed>>

(***************************************************************************)
(* setTileProp(x, y, property, value):                                     *)
(*   const tile = this.getTileRaw(x, y);                                   *)
(*   this.setTileRaw(x, y, World.setBitValue(tile, property, value));      *)
(* An undefined tile (index outside the array) is 0 under ToInt32.         *)
(***************************************************************************)
SetTileProp(x, y, property, value) ==
  /\ pc = "live"
  /\ count.tile < MaxTileOps
  /\ LET tile == IF InArray(x, y) THEN getTileRaw(x, y) ELSE ZeroWord
     IN  data' = [data EXCEPT
                    !.words = store(grid, x, y, setBitValue(tile, property, value))]
  /\ last' = [op |-> "setTileProp", args |-> <<x, y, property, value>>, before |-> grid]
  /\ ret' = RetUndefined
  /\ count' = [count EXCEPT !.tile = @ + 1]
  /\ UNCHANGED <<pc, width, height, entities, entityLayers, pos, removed>>

(***************************************************************************)
(* Inputs of the grid specification.                                       *)
(***************************************************************************)
Widths == 1..MaxDim
Heights == {1, 2}
\* every cell of the grid, and the cells one step past its right and bottom edge
Cells(w, h) == ((0..(w - 1)) \X (0..(h - 1))) \cup {<<w, 0>>, <<0, h>>}
ValidCell(x, y) == x \in 0..(width - 1) /\ y \in 0..(height - 1)

RawValues == { ToInt32(420), HighBit, AllOnes }

MaxValue(property) == Pow2(bitScheme[property].length) - 1
\* values of a field: 0, 5 (or the largest, if 5 does not fit), and 0x1005, too
\* large for every field, whose top bit leaves the 32-bit word from the highest one
FieldValues(property) ==
  { 0, IF 5 <= MaxValue(property) THEN 5 ELSE MaxValue(property), 4101 }
InWidth(property, value) == value >= 0 /\ value <= MaxValue(property)

InitGrid ==
  /\ pc = "new"
  /\ width = 0
  /\ height = 0
  /\ data = NoBuffer
  /\ entities = <<>>
  /\ entityLayers = <<>>
  /\ pos = <<>>
  /\ last = [op |-> "none", args |-> <<>>]
  /\ ret = RetUndefined
  /\ removed = {}
  /\ count = NoCount

\* the shapes of call: new World(w, h), new World(w, h, buffer) as the tests call
\* it, new World(w, h, undefined, buffer) and new World(w, h, [], buffer)
ConstructorCalls(w, h) ==
  {<<Undefined, Undefined>>}
    \cup {<<b, Undefined>> : b \in TestBuffers(w, h)}
    \cup {<<Undefined, b>> : b \in SuppliedBuffers(w, h)}
    \cup {<<EntityArray(<<>>), b>> : b \in SuppliedBuffers(w, h)}

NextGrid ==
  \/ \E w \in Widths, h \in Heights : \E a \in ConstructorCalls(w, h) :
       Construct(w, h, a[1], a[2])
  \/ \E c \in Cells(width, height), value \in RawValues :
       SetTileRaw(c[1], c[2], value)
  \/ \E c \in Cells(width, height), property \in Properties :
       \E value \in FieldValues(property) : SetTileProp(c[1], c[2], property, value)

SpecGrid == InitGrid /\ [][NextGrid]_vars

(***************************************************************************)
(* Rectangle: centre (x, y) and half-extents (w, h), covering              *)
(* [x-w, x+w] x [y-h, y+h], both bounds included.  Coordinates are counted *)
(* in steps of 1/Unit of a tile, so that the centres and half-extents of   *)
(* all quadrants down to depth MaxDepth are whole numbers.                 *)
(***************************************************************************)
Unit == 2 ^ (MaxDepth + 1)

Rectangle(x, y, w, h) == [x |-> x, y |-> y, w |-> w, h |-> h]

contains(r, point) ==
  /\ point[1] >= r.x - r.w /\ point[1] <= r.x + r.w
  /\ point[2] >= r.y - r.h /\ point[2] <= r.y + r.h

intersects(r, range) ==
  ~ \/ range.x - range.w > r.x + r.w
    \/ range.x + range.w < r.x - r.w
    \/ range.y - range.h > r.y + r.h
    \/ range.y + range.h < r.y - r.h

(***************************************************************************)
(* Quadtree node: a boundary and either points (leaf) or four children in  *)
(* the order NW, NE, SW, SE.  The capacity is quadtreeCapacity throughout. *)
(* ps gives the current position of every entity: the tree holds entities, *)
(* not copies of their positions.                                          *)
(***************************************************************************)
Leaf(boundary) == [boundary |-> boundary, points |-> <<>>, divided |-> FALSE, kids |-> <<>>]

\* the four quadrants of a boundary: NW, NE, SW, SE
Quadrants(b) ==
  << Rectangle(b.x - b.w \div 2, b.y - b.h \div 2, b.w \div 2, b.h \div 2),
     Rectangle(b.x + b.w \div 2, b.y - b.h \div 2, b.w \div 2, b.h \div 2),
     Rectangle(b.x - b.w \div 2, b.y + b.h \div 2, b.w \div 2, b.h \div 2),
     Rectangle(b.x + b.w \div 2, b.y + b.h \div 2, b.w \div 2, b.h \div 2) >>

\* the first child, in the order NW, NE, SW, SE, whose boundary contains the point; 0 if none
FirstKid(bounds, point) ==
  IF \E k \in 1..4 : contains(bounds[k], point)
    THEN CHOOSE k \in 1..4 : /\ contains(bounds[k], point)
                             /\ \A j \in 1..(k - 1) : ~contains(bounds[j], point)
    ELSE 0

\* subdivide: four empty children; every held point goes to the first child that
\* contains it (a point none contains is dropped); the node holds no points itself
subdivide(n, ps) ==
  LET bounds == Quadrants(n.boundary)
      Goes(k) == LET Here(e) == FirstKid(bounds, ps[e]) = k IN SelectSeq(n.points, Here)
  IN  [n EXCEPT !.points = <<>>,
                !.divided = TRUE,
                !.kids = [k \in 1..4 |-> [Leaf(bounds[k]) EXCEPT !.points = Goes(k)]]]

\* a leaf at capacity whose points all sit where the new entity sits: every
\* subdivision sends all of them to the same child, and the recursion never ends
Diverges(n, e, ps) ==
  /\ ~n.divided
  /\ Len(n.points) >= quadtreeCapacity
  /\ \A i \in DOMAIN n.points : ps[n.points[i]] = ps[e]

\* insert(entity): "false" outside the boundary, "true" when stored, "overflow"
\* when the recursion does not end (the call stack overflows), "deep" when the
\* tree would grow past MaxDepth
RECURSIVE insert(_, _, _, _)
insert(n, e, ps, depth) ==
  IF ~contains(n.boundary, ps[e]) THEN [st |-> "false", node |-> n]
  ELSE IF ~n.divided /\ Len(n.points) < quadtreeCapacity
    THEN [st |-> "true", node |-> [n EXCEPT !.points = Append(@, e)]]
  ELSE IF Diverges(n, e, ps) THEN [st |-> "overflow", node |-> n]
  ELSE IF ~n.divided /\ depth >= MaxDepth THEN [st |-> "deep", node |-> n]
  ELSE LET m == IF n.divided THEN n ELSE subdivide(n, ps)
           k == FirstKid([j \in 1..4 |-> m.kids[j].boundary], ps[e])
           r == insert(m.kids[k], e, ps, depth + 1)
       IN  [st |-> r.st, node |-> [m EXCEPT !.kids[k] = r.node]]

\* the sequence without the first occurrence of e
RemoveFirst(seq, e) ==
  IF \E i \in DOMAIN seq : seq[i] = e
    THEN LET i == CHOOSE i \in DOMAIN seq : seq[i] = e /\ \A j \in 1..(i - 1) : seq[j] # e
         IN  SubSeq(seq, 1, i - 1) \o SubSeq(seq, i + 1, Len(seq))
    ELSE seq

Range(seq) == {seq[i] : i \in DOMAIN seq}

\* remove(entity): a leaf searches its points by identity; a subdivided node
\* delegates to the child whose boundary contains the entity's current position
RECURSIVE remove(_, _, _)
remove(n, e, ps) ==
  IF ~n.divided
    THEN IF e \in Range(n.points)
           THEN [found |-> TRUE, node |-> [n EXCEPT !.points = RemoveFirst(@, e)]]
           ELSE [found |-> FALSE, node |-> n]
    ELSE LET k == FirstKid([j \in 1..4 |-> n.kids[j].boundary], ps[e])
         IN  IF k = 0 THEN [found |-> FALSE, node |-> n]
             ELSE LET r == remove(n.kids[k], e, ps)
                  IN  [found |-> r.found, node |-> [n EXCEPT !.kids[k] = r.node]]

\* clear(): an empty leaf with the same boundary
clear(n) == Leaf(n.boundary)

\* query(range): the stored entities whose current position the range contains,
\* children visited in the order NW, NE, SW, SE
RECURSIVE query(_, _, _)
query(n, range, ps) ==
  IF ~intersects(n.boundary, range) THEN <<>>
  ELSE IF ~n.divided
    THEN LET In(e) == contains(range, ps[e]) IN SelectSeq(n.points, In)
    ELSE query(n.kids[1], range, ps) \o query(n.kids[2], range, ps)
           \o query(n.kids[3], range, ps) \o query(n.kids[4], range, ps)

(***************************************************************************)
(* Layers: World.entityLayers is a Map, kept here in insertion order as a  *)
(* sequence of [id, entities, qtree]; entities is a Set, kept in insertion *)
(* order as a sequence without repetitions.                                *)
(***************************************************************************)
LayerIndex(layers, layerId) ==
  IF \E i \in DOMAIN layers : layers[i].id = layerId
    THEN CHOOSE i \in DOMAIN layers : layers[i].id = layerId
    ELSE 0

HasLayer(layerId) == LayerIndex(entityLayers, layerId) # 0
Layer(layerId) == entityLayers[LayerIndex(entityLayers, layerId)]

\* Set.add
SetAdd(seq, e) == IF e \in Range(seq) THEN seq ELSE Append(seq, e)
\* Set.delete
SetDelete(seq, e) == RemoveFirst(seq, e)

\* a root boundary centred on the origin instead of the middle of the world
WorldBoundaryAtOrigin == Rectangle(0, 0, (width * Unit) \div 2, (height * Unit) \div 2)

\* new Rectangle(width / 2, height / 2, width / 2, height / 2)
WorldBoundary ==
  Rectangle((width * Unit) \div 2, (height * Unit) \div 2,
            (width * Unit) \div 2, (height * Unit) \div 2)

NewLayer(layerId) == [id |-> layerId, entities |-> <<>>, qtree |-> Leaf(WorldBoundary)]

(***************************************************************************)
(* insert(entity, layerId) on a world with the given layers and global     *)
(* list; ps is the position of every entity at the time of the call.  When *)
(* qtree.insert does not return, the set already has the entity and the    *)
(* tree has been subdivided on the way, and entities.push is not reached.  *)
(***************************************************************************)
World_insert(layers, list, e, layerId, ps) ==
  LET created == IF LayerIndex(layers, layerId) = 0
                   THEN Append(layers, NewLayer(layerId))
                   ELSE layers
      i == LayerIndex(created, layerId)
      r == insert(created[i].qtree, e, ps, 0)
  IN  IF r.st \in {"overflow", "deep"}
        THEN [st |-> r.st,
              layers |-> [created EXCEPT ![i].entities = SetAdd(@, e),
                                         ![i].qtree = r.node],
              list |-> list]
        ELSE [st |-> r.st,
              layers |-> [created EXCEPT ![i].entities = SetAdd(@, e),
                                         ![i].qtree = r.node],
              list |-> Append(list, e)]

Insert(e, layerId, ps) ==
  /\ pc = "live"
  /\ count.insert < MaxInserts
  /\ LET r == World_insert(entityLayers, entities, e, layerId, ps)
     IN  /\ r.st # "deep"
         /\ pc' = IF r.st = "overflow" THEN "thrown" ELSE pc
         /\ entityLayers' = r.layers
         /\ entities' = r.list
  /\ pos' = ps
  /\ removed' = removed \ {<<e, layerId>>}
  /\ last' = [op |-> "insert", args |-> <<e, layerId>>]
  /\ ret' = RetUndefined
  /\ count' = [count EXCEPT !.insert = @ + 1]
  /\ UNCHANGED <<width, height, data>>

(***************************************************************************)
(* remove(entity, layerId)                                                 *)
(***************************************************************************)
\* a remove that hands the entity back whether or not the layer exists
removeResultEntity(e, layerId) == RetEntity(e)

\* a remove that takes the entity out of every layer once the named layer exists
World_removeEverywhere(layers, e, layerId, ps) ==
  IF LayerIndex(layers, layerId) = 0 THEN layers
  ELSE [i \in DOMAIN layers |->
          [layers[i] EXCEPT !.qtree = remove(@, e, ps).node,
                            !.entities = SetDelete(@, e)]]

\* the layers after remove(entity, layerId): untouched without the named layer,
\* else layer.qtree.remove(entity); layer.entities.delete(entity)
World_remove(layers, e, layerId, ps) ==
  IF LayerIndex(layers, layerId) = 0 THEN layers
  ELSE [layers EXCEPT
          ![LayerIndex(layers, layerId)].qtree = remove(@, e, ps).node,
          ![LayerIndex(layers, layerId)].entities = SetDelete(@, e)]

\* what remove returns: null without the layer, the entity otherwise
removeResult(e, layerId) == IF HasLayer(layerId) THEN RetEntity(e) ELSE RetNull

Remove(e, layerId) ==
  /\ pc = "live"
  /\ count.remove < MaxRemoves
  /\ entities' = RemoveFirst(entities, e)
  /\ entityLayers' = World_remove(entityLayers, e, layerId, pos)
  /\ removed' = IF HasLayer(layerId) /\ e \in Range(Layer(layerId).entities)
                  THEN removed \cup {<<e, layerId>>}
                  ELSE removed
  /\ ret' = removeResult(e, layerId)
  /\ last' = [op |-> "remove", args |-> <<e, layerId>>]
  /\ count' = [count EXCEPT !.remove = @ + 1]
  /\ UNCHANGED <<pc, width, height, data, pos>>

(***************************************************************************)
(* update(): every layer's quadtree is cleared and refilled from the       *)
(* layer's membership set, in the set's order.                             *)
(***************************************************************************)
RECURSIVE Refill(_, _, _)
Refill(r, members, ps) ==
  IF members = <<>> \/ r.st \in {"overflow", "deep"} THEN r
  ELSE Refill(insert(r.node, Head(members), ps, 0), Tail(members), ps)

\* an update that refills the tree without clearing it first
rebuildNoClear(layer, ps) == Refill([st |-> "true", node |-> layer.qtree], layer.entities, ps)

rebuild(layer, ps) == Refill([st |-> "true", node |-> clear(layer.qtree)], layer.entities, ps)

\* the layers are rebuilt in the order of the map; when an insert does not return,
\* the exception leaves the loops: the layers before are rebuilt, the failing one
\* is cleared and refilled up to the failing insert, the ones after are untouched.
\* (The chain of subdivisions the runaway recursion leaves under the failing leaf,
\* as deep as the call stack allowed, is not represented.)
Update ==
  /\ pc = "live"
  /\ last.op # "update"
  /\ LET r == [i \in DOMAIN entityLayers |-> rebuild(entityLayers[i], pos)]
         failed == {i \in DOMAIN r : r[i].st = "overflow"}
         reached == IF failed = {} THEN DOMAIN r
                    ELSE 1..(CHOOSE i \in failed : \A j \in failed : i <= j)
     IN  /\ \A i \in reached : r[i].st # "deep"
         /\ pc' = IF failed = {} THEN pc ELSE "thrown"
         /\ entityLayers' =
              [i \in DOMAIN r |-> IF i \in reached
                                    THEN [entityLayers[i] EXCEPT !.qtree = r[i].node]
                                    ELSE entityLayers[i]]
  /\ last' = [op |-> "update", args |-> <<>>]
  /\ ret' = RetUndefined
  /\ UNCHANGED <<width, height, data, entities, pos, removed, count>>

(***************************************************************************)
(* The caller moves an entity: entity.pos is the caller's to change.       *)
(***************************************************************************)
Move(e, point) ==
  /\ pc = "live"
  /\ count.move < MaxMoves
  /\ e \in DOMAIN pos
  /\ pos[e] # point
  /\ pos' = [pos EXCEPT ![e] = point]
  /\ last' = [op |-> "move", args |-> <<e, point>>]
  /\ ret' = RetUndefined
  /\ count' = [count EXCEPT !.move = @ + 1]
  /\ UNCHANGED <<pc, width, height, data, entities, entityLayers, removed>>

(***************************************************************************)
(* query(range, layerId) and nearby(entity, radius, layerId)               *)
(***************************************************************************)
\* an "ALL" that only asks the first layer
RECURSIVE QueryAllFirstOnly(_, _, _)
QueryAllFirstOnly(layers, range, ps) ==
  IF layers = <<>> THEN <<>> ELSE query(Head(layers).qtree, range, ps)

\* for (const layer of this.entityLayers.values()) found.push(...layer.qtree.query(range))
RECURSIVE QueryAll(_, _, _)
QueryAll(layers, range, ps) ==
  IF layers = <<>> THEN <<>>
  ELSE query(Head(layers).qtree, range, ps) \o QueryAll(Tail(layers), range, ps)

\* query(range, layerId) on a world with the given layers and positions
queryOn(layers, ps, range, layerId) ==
  IF layerId = "ALL" THEN QueryAll(layers, range, ps)
  ELSE IF LayerIndex(layers, layerId) # 0
    THEN query(layers[LayerIndex(layers, layerId)].qtree, range, ps)
  ELSE <<>>

World_query(range, layerId) == queryOn(entityLayers, pos, range, layerId)

World_nearby(e, radius, layerId) ==
  World_query(Rectangle(pos[e][1], pos[e][2], radius, radius), layerId)

(***************************************************************************)
(* Inputs of the layer specification.                                      *)
(***************************************************************************)
\* positions: the top-left corner, the centre (on the border of all four
\* quadrants), the bottom-right corner, and a point right of the world
PointAt(w, h) ==
  << <<0, 0>>, <<(w * Unit) \div 2, (h * Unit) \div 2>>,
     <<w * Unit, h * Unit>>, <<(w + 1) * Unit, 0>> >>
Points == Range(PointAt(width, height))

InsertLayers == {DEFAULT_LAYER_ID, "A"}
\* "A" does not exist until something is inserted into it; "B" never exists
RemoveLayers == InsertLayers
QueryLayers == InsertLayers \cup {"B", "ALL"}

\* ranges: the whole world, and around every position a square of half-extent
\* 0 and of a whole tile (as nearby builds it)
Radii == {0, Unit}
Ranges ==
  {WorldBoundary} \cup {Rectangle(pt[1], pt[2], r, r) : pt \in Points, r \in Radii}

\* the populations a world starts with: up to quadtreeCapacity entities, given
\* by the places inside the world (indices 1..3 into PointAt) they stand at
Populations ==
  UNION { {f \in [1..n -> 1..3] : \A i \in 1..(n - 1) : f[i] <= f[i + 1]}
          : n \in 0..quadtreeCapacity }

\* the world after entities 1..n were inserted, in turn, into the default layer
RECURSIVE Populated(_, _)
Populated(n, ps) ==
  IF n = 0 THEN [st |-> "true", layers |-> <<>>, list |-> <<>>]
  ELSE LET w == Populated(n - 1, ps)
       IN  World_insert(w.layers, w.list, n, DEFAULT_LAYER_ID, ps)

\* new World(MaxDim, 1), then the first population inserted
Init ==
  /\ pc = "live"
  /\ width = MaxDim
  /\ height = 1
  /\ data = ArrayBuffer("fresh", MaxDim * 1 * 4, "zero")
  /\ \E f \in Populations :
       /\ pos = [i \in DOMAIN f |-> PointAt(MaxDim, 1)[f[i]]]
       /\ entityLayers = Populated(Len(f), [i \in DOMAIN f |-> PointAt(MaxDim, 1)[f[i]]]).layers
       /\ entities = Populated(Len(f), [i \in DOMAIN f |-> PointAt(MaxDim, 1)[f[i]]]).list
       /\ last = [op |-> IF Len(f) = 0 THEN "new" ELSE "insert",
                  args |-> IF Len(f) = 0 THEN <<MaxDim, 1, Undefined, Undefined>>
                           ELSE <<Len(f), DEFAULT_LAYER_ID>>]
  /\ ret = RetUndefined
  /\ removed = {}
  /\ count = NoCount

Next ==
  \/ \E e \in DOMAIN pos, layerId \in InsertLayers : Insert(e, layerId, pos)
  \/ \E point \in Points, layerId \in InsertLayers :
       Insert(Len(pos) + 1, layerId, Append(pos, point))
  \/ \E e \in DOMAIN pos, layerId \in RemoveLayers : Remove(e, layerId)
  \/ Update
  \/ \E e \in DOMAIN pos, point \in Points : Move(e, point)

Spec == Init /\ [][Next]_vars

(***************************************************************************)
(* query and nearby as calls.  query reads entityLayers with Map.get and   *)
(* Map.values and collects into a fresh array; nearby builds the rectangle *)
(* around the entity's position and calls query.                           *)
(***************************************************************************)
\* a query that creates the layer it does not find, as insert does
layersAfterQueryCreating(layers, layerId) ==
  IF layerId # "ALL" /\ LayerIndex(layers, layerId) = 0
    THEN Append(layers, NewLayer(layerId))
    ELSE layers

\* entityLayers after query(range, layerId): the map is read, never written
layersAfterQuery(layers, layerId) == layers

Query(range, layerId) ==
  /\ pc = "live"
  /\ entityLayers' = layersAfterQuery(entityLayers, layerId)
  /\ ret' = RetList(World_query(range, layerId))
  /\ last' = [op |-> "query", args |-> <<range, layerId>>]
  /\ UNCHANGED <<pc, width, height, data, entities, pos, removed, count>>

Nearby(e, radius, layerId) ==
  /\ pc = "live"
  /\ e \in DOMAIN pos
  /\ entityLayers' = layersAfterQuery(entityLayers, layerId)
  /\ ret' = RetList(World_nearby(e, radius, layerId))
  /\ last' = [op |-> "nearby", args |-> <<e, radius, layerId>>]
  /\ UNCHANGED <<pc, width, height, data, entities, pos, removed, count>>

\* ranges asked for directly: the whole world and the single point (0, 0)
QueryRanges == {WorldBoundary, Rectangle(0, 0, 0, 0)}

\* the calls of the layer specification, at most MaxChanges of them inserts,
\* removes or moves, with queries in between
NextQuery ==
  \/ /\ Next
     /\ count' = count \/ count.insert + count.remove + count.move < MaxChanges
  \/ \E range \in QueryRanges, layerId \in QueryLayers : Query(range, layerId)
  \/ \E e \in DOMAIN pos, layerId \in QueryLayers : Nearby(e, Unit, layerId)

SpecQuery == Init /\ [][NextQuery]_vars

(***************************************************************************)
(* Properties of the grid.                                                 *)
(***************************************************************************)
Index(x, y) == y * width + x + 1            \* place of tile (x, y) in data.words
ReservedBits == 25..32                      \* bits 24-31 of a tile

\* C1 - field round-trip: after setTileProp(x, y, f, v) on a valid cell, with
\* v within the width of f and whatever the tile held before, getTileProp(x, y, f)
\* returns v.
C1_FieldRoundTrip ==
  (last.op = "setTileProp" /\ ValidCell(last.args[1], last.args[2])
                           /\ InWidth(last.args[3], last.args[4]))
    => getTileProp(last.args[1], last.args[2], last.args[3]) = last.args[4]

\* a tile that was 0xffffffff had entityType set to 5: the old bits of the field
\* are gone, the neighbouring field still reads 4095
C1_Witness ==
  /\ last.op = "setTileProp" /\ ValidCell(last.args[1], last.args[2])
  /\ last.args[3] = "entityType" /\ last.args[4] = 5
  /\ getTileProp(last.args[1], last.args[2], "entityId") = 4095
  /\ getTileProp(last.args[1], last.args[2], "entityType") = 5

\* C2 - field isolation: setTileProp(x, y, f, v) on a valid cell with v within the
\* width of f leaves every other field of that tile, bits 24-31 of that tile and
\* every other cell as they were; a tile 0xe009 given entityType 5 becomes 0xe005.
C2_FieldIsolation ==
  (last.op = "setTileProp" /\ ValidCell(last.args[1], last.args[2])
                           /\ InWidth(last.args[3], last.args[4]))
    => LET i == Index(last.args[1], last.args[2])
           before == last.before
           after == data.words
       IN  /\ \A q \in Properties \ {last.args[3]} :
                 getBitValue(after[i], q) = getBitValue(before[i], q)
           /\ \A b \in ReservedBits : after[i][b] = before[i][b]
           /\ DOMAIN after = DOMAIN before
           /\ \A j \in DOMAIN before \ {i} : after[j] = before[j]
           /\ (before[i] = ToInt32(57353) /\ last.args[3] = "entityType"
                 /\ last.args[4] = 5)
                => after[i] = ToInt32(57349)

\* the tests' case has happened: a tile of a supplied buffer reads 0xe005 after
\* entityType was set to 5, in a grid of more than one cell
C2_Witness ==
  /\ last.op = "setTileProp" /\ ValidCell(last.args[1], last.args[2])
  /\ last.args[3] = "entityType" /\ last.args[4] = 5
  /\ last.before[Index(last.args[1], last.args[2])] = ToInt32(57353)
  /\ getTileRaw(last.args[1], last.args[2]) = ToInt32(57349)
  /\ Len(grid) > 1

\* C3 - raw round-trip: after setTileRaw(x, y, v) on a valid cell, v any 32-bit
\* value, getTileRaw(x, y) returns v, and v is stored at row-major index y*width + x.
C3_RawRoundTrip ==
  (last.op = "setTileRaw" /\ ValidCell(last.args[1], last.args[2]))
    => /\ getTileRaw(last.args[1], last.args[2]) = last.args[3]
       /\ data.words[last.args[2] * width + last.args[1] + 1] = last.args[3]

\* 0x80000000 was written off the diagonal of a grid that is not square
C3_Witness ==
  /\ last.op = "setTileRaw" /\ ValidCell(last.args[1], last.args[2])
  /\ last.args[1] # last.args[2] /\ width # height
  /\ last.args[3] = HighBit
  /\ getTileRaw(last.args[1], last.args[2]) = HighBit

\* C4 - construction: without worldData the buffer is fresh, zeroed and w*h*4 bytes
\* long; with worldData the constructor throws iff its byte length differs from
\* w*h*4 and otherwise adopts it; the byte length never changes afterwards.
C4_Construction ==
  /\ last.op = "new" =>
       LET w == last.args[1]
           h == last.args[2]
           worldData == last.args[4]
       IN  IF Truthy(worldData)
             THEN /\ pc = "thrown" <=> worldData.byteLength # w * h * 4
                  /\ pc = "live" => data = worldData
             ELSE /\ pc = "live"
                  /\ data.id = "fresh"
                  /\ data.byteLength = w * h * 4
                  /\ \A i \in DOMAIN data.words : data.words[i] = ZeroWord
  /\ pc = "live" => /\ data.byteLength = width * height * 4
                    /\ Len(data.words) * 4 = data.byteLength

\* a world that adopted the caller's buffer has since had a tile written
C4_Witness ==
  /\ pc = "live" /\ data.id = "arg"
  /\ last.op = "setTileProp" /\ ValidCell(last.args[1], last.args[2])
  /\ data.byteLength = width * height * 4

\* C5 - a buffer passed as the third positional argument, as the tests pass it, is
\* size-validated (throws iff its byte length differs from w*h*4) and becomes
\* world.data.
C5_ThirdArgumentBuffer ==
  (last.op = "new" /\ last.args[3].kind = "buffer") =>
     /\ pc = "thrown" <=> last.args[3].byteLength # last.args[1] * last.args[2] * 4
     /\ pc = "live" => data = last.args[3]

(***************************************************************************)
(* Properties of the layers.                                               *)
(***************************************************************************)
Members(layerId) == IF HasLayer(layerId) THEN Range(Layer(layerId).entities) ELSE {}
NamedLayers == QueryLayers \ {"ALL"}
Occurrences(seq, e) == Cardinality({i \in DOMAIN seq : seq[i] = e})
NoRepetition(seq) == \A i, j \in DOMAIN seq : seq[i] = seq[j] => i = j
\* [0, width] x [0, height]
FullWorld ==
  Rectangle((width * Unit) \div 2, (height * Unit) \div 2,
            (width * Unit) \div 2, (height * Unit) \div 2)
Inside(point) ==
  /\ point[1] >= 0 /\ point[1] <= width * Unit
  /\ point[2] >= 0 /\ point[2] <= height * Unit

\* C6 - removal: once remove(e, L) was called for an entity e inserted into the
\* existing layer L, no query on L, for any range, returns e until e is inserted
\* into L again, whatever inserts, moves and updates came before or come after.
C6_RemovedIsAbsent ==
  pc = "live" =>
    \A m \in removed : \A range \in Ranges :
      m[1] \notin Range(World_query(range, m[2]))

\* C7 - removing a non-member: remove(e, L) on an existing layer L that does not
\* hold e returns "not found" (null) rather than e, does not throw, and leaves
\* L's membership set and the result of every query on L as they were.
C7_RemoveNonMember ==
  [][ (last'.op = "remove" /\ count'.remove = count.remove + 1
         /\ HasLayer(last'.args[2])
         /\ last'.args[1] \notin Members(last'.args[2]))
      => /\ ret' = RetNull
         /\ pc' = "live"
         /\ entityLayers'[LayerIndex(entityLayers', last'.args[2])].entities
              = Layer(last'.args[2]).entities
         /\ \A range \in Ranges :
              queryOn(entityLayers', pos', range, last'.args[2])
                = World_query(range, last'.args[2]) ]_vars

\* C8 - rebuild: right after update() returned, for every layer and every range,
\* query returns exactly the members of the layer whose current position lies in
\* the range and in the world, each once.
C8_RebuildCorrect ==
  (pc = "live" /\ last.op = "update") =>
    \A i \in DOMAIN entityLayers : \A range \in Ranges :
      LET found == World_query(range, entityLayers[i].id)
      IN  /\ NoRepetition(found)
          /\ Range(found) = {e \in Range(entityLayers[i].entities) :
                               contains(range, pos[e]) /\ Inside(pos[e])}

\* update() returned after an entity had moved, for a layer of more than four
\* members that is subdivided again, and the full range finds all of them
C8_Witness ==
  /\ pc = "live" /\ last.op = "update"
  /\ count.move > 0
  /\ \E i \in DOMAIN entityLayers :
       /\ entityLayers[i].qtree.divided
       /\ Len(entityLayers[i].entities) > quadtreeCapacity
       /\ Len(World_query(FullWorld, entityLayers[i].id)) > quadtreeCapacity

\* C9 - layers: an entity never inserted into layer B is not returned by any query
\* on B; a layer that does not exist yields the empty list; and query(R, "ALL") is
\* the concatenation of query(R, L) over the layers in order, so it returns an
\* entity once for every layer that returns it.
EverIn(layerId) == Members(layerId) \cup {m[1] : m \in {r \in removed : r[2] = layerId}}

C9_LayerIsolation ==
  pc = "live" =>
    \A range \in Ranges :
      \A all \in {World_query(range, "ALL")},
         inDefault \in {World_query(range, DEFAULT_LAYER_ID)},
         inA \in {World_query(range, "A")},
         inB \in {World_query(range, "B")} :
        /\ Range(inDefault) \subseteq EverIn(DEFAULT_LAYER_ID)
        /\ Range(inA) \subseteq EverIn("A")
        /\ Range(inB) \subseteq EverIn("B")
        /\ ~HasLayer(DEFAULT_LAYER_ID) => inDefault = <<>>
        /\ ~HasLayer("A") => inA = <<>>
        /\ ~HasLayer("B") => inB = <<>>
        /\ \/ Len(entityLayers) = 0 /\ all = <<>>
           \/ Len(entityLayers) = 1 /\ entityLayers[1].id = DEFAULT_LAYER_ID /\ all = inDefault
           \/ Len(entityLayers) = 1 /\ entityLayers[1].id = "A" /\ all = inA
           \/ /\ Len(entityLayers) = 2 /\ entityLayers[1].id = DEFAULT_LAYER_ID
              /\ all = inDefault \o inA
           \/ /\ Len(entityLayers) = 2 /\ entityLayers[1].id = "A"
              /\ all = inA \o inDefault
        /\ \A e \in DOMAIN pos :
              Occurrences(all, e) = Occurrences(inDefault, e) + Occurrences(inA, e)

\* two layers exist; an entity held by "A" alone is found by a query on "A" and on
\* "ALL", not on the default layer, which returns others for the same range
C9_Witness ==
  /\ pc = "live" /\ Len(entityLayers) = 2
  /\ \E e \in Members("A") \ Members(DEFAULT_LAYER_ID) :
       /\ <<e, DEFAULT_LAYER_ID>> \notin removed
       /\ e \in Range(World_query(FullWorld, "A"))
       /\ e \in Range(World_query(FullWorld, "ALL"))
       /\ e \notin Range(World_query(FullWorld, DEFAULT_LAYER_ID))
       /\ World_query(FullWorld, DEFAULT_LAYER_ID) # <<>>

\* C10 - completeness: when nothing was removed or moved and no entity was inserted
\* twice into a layer, a layer whose members all stand inside the world returns
\* exactly its members for the range [0,width] x [0,height], below and above the
\* capacity of 4, and returns nothing for a range that holds none of their positions.
NoDoubleInsert ==
  \A e \in DOMAIN pos :
    Occurrences(entities, e) = Cardinality({l \in NamedLayers : e \in Members(l)})

C10_Completeness ==
  (pc = "live" /\ count.remove = 0 /\ count.move = 0 /\ NoDoubleInsert) =>
    \A i \in DOMAIN entityLayers :
      (\A e \in Range(entityLayers[i].entities) : Inside(pos[e])) =>
        /\ Range(World_query(FullWorld, entityLayers[i].id))
             = Range(entityLayers[i].entities)
        /\ Len(World_query(FullWorld, entityLayers[i].id))
             = Len(entityLayers[i].entities)
        /\ \A range \in Ranges :
             (\A e \in Range(entityLayers[i].entities) : ~contains(range, pos[e]))
               => World_query(range, entityLayers[i].id) = <<>>

\* five entities, one of them on the border of all four quadrants and one on the
\* far corner of the world, were inserted into one layer, which has subdivided
C10_Witness ==
  /\ pc = "live" /\ count.remove = 0 /\ count.move = 0 /\ NoDoubleInsert
  /\ \E i \in DOMAIN entityLayers :
       /\ entityLayers[i].qtree.divided
       /\ Len(entityLayers[i].entities) = quadtreeCapacity + 1
       /\ \A e \in Range(entityLayers[i].entities) : Inside(pos[e])
       /\ \E e \in Range(entityLayers[i].entities) : pos[e] = PointAt(width, height)[2]
       /\ \E e \in Range(entityLayers[i].entities) : pos[e] = PointAt(width, height)[3]
       /\ Len(World_query(FullWorld, entityLayers[i].id)) = quadtreeCapacity + 1

\* C11 - staleness window: when the caller moves an entity e that every layer
\* holding it has indexed at its position so far (nothing moved before), then until
\* the next update, insert or remove of e, query(R, L) on a layer L holding e
\* returns e iff the position e was indexed at lies in R, wherever e stands now.
C11_StalenessWindow ==
  [][ (pc = "live" /\ count.move = 0
         /\ last'.op = "move" /\ count'.move = count.move + 1)
      => \A layerId \in NamedLayers :
           (last'.args[1] \in Members(layerId) /\ Inside(pos[last'.args[1]]))
             => \A range \in Ranges :
                  (last'.args[1] \in Range(queryOn(entityLayers', pos', range, layerId)))
                    <=> contains(range, pos[last'.args[1]]) ]_vars

\* C12 - out-of-range tile coordinates: setTileRaw and setTileProp called with x or
\* y outside the grid raise a bounds error and leave every cell as it was, and
\* getTileRaw with such coordinates reads no cell of the grid, also when
\* y*width + x is an index of the buffer (x = width, y = 0).
C12_OutOfRangeIsAnError ==
  [][ (last'.op \in {"setTileRaw", "setTileProp"} /\ count'.tile = count.tile + 1
         /\ ~ValidCell(last'.args[1], last'.args[2]))
      => /\ pc' = "thrown"
         /\ data' = data
         /\ \A c \in Cells(width, height) :
              ~ValidCell(c[1], c[2]) => ~InArray(c[1], c[2]) ]_vars

\* C13 - termination: every insert and every update returns when all the entities
\* stand inside the world, also when more than four of one layer stand on the same
\* spot.
C13_InsertAndUpdateReturn ==
  (last.op \in {"insert", "update"} /\ \A e \in DOMAIN pos : Inside(pos[e]))
    => pc = "live"

\* C14 - bit scheme: every field has the length and offset of the table (4/0,
\* 12/4, 2/16, 3/18, 3/21) and the mask (2^length - 1) * 2^offset; no two masks
\* share a bit; the lengths add up to at most 32 and no mask covers bits 24-31; so
\* every field of every tile reads as a value in 0 .. 2^length - 1 (looked at when
\* the tile is written: by the constructor, by setTileRaw or by setTileProp).
SchemeMasks == [p \in Properties |-> ToInt32(bitScheme[p].mask)]
SchemeMatchesTable ==
  /\ Properties = {"entityType", "entityId", "terrain", "homeTrail", "foodTrail"}
  /\ \A p \in Properties :
       /\ <<bitScheme[p].length, bitScheme[p].offset>> =
            [ entityType |-> <<4, 0>>, entityId |-> <<12, 4>>, terrain |-> <<2, 16>>,
              homeTrail |-> <<3, 18>>, foodTrail |-> <<3, 21>> ][p]
       /\ bitScheme[p].mask = (2 ^ bitScheme[p].length - 1) * 2 ^ bitScheme[p].offset
       /\ \A b \in ReservedBits : SchemeMasks[p][b] = 0
       /\ \A q \in Properties \ {p} :
            \A b \in Word : SchemeMasks[p][b] * SchemeMasks[q][b] = 0
  /\ bitScheme.entityType.length + bitScheme.entityId.length + bitScheme.terrain.length
       + bitScheme.homeTrail.length + bitScheme.foodTrail.length <= 32

\* the tiles the last call has set: all of them for the constructor, the one at
\* index y*width + x for a tile write
LastWritten ==
  IF last.op = "new" THEN DOMAIN grid
  ELSE IF last.op \in {"setTileRaw", "setTileProp"} /\ InArray(last.args[1], last.args[2])
    THEN {Index(last.args[1], last.args[2])}
  ELSE {}

C14_BitSchemeWellFormed ==
  /\ SchemeMatchesTable
  /\ pc = "live" =>
       \A i \in LastWritten : \A p \in Properties :
         getBitValue(grid[i], p) \in 0..(2 ^ bitScheme[p].length - 1)

\* a tile holds 0xffffffff: every field reads its largest value, bits 24-31 are set
C14_Witness ==
  /\ pc = "live" /\ last.op = "setTileRaw" /\ ValidCell(last.args[1], last.args[2])
  /\ getTileRaw(last.args[1], last.args[2]) = AllOnes
  /\ \A p \in Properties : getTileProp(last.args[1], last.args[2], p) = MaxValue(p)

\* bit k (0 = lowest) of a non-negative integer below 2^31
BitOf(v, k) == IF k > 30 THEN 0 ELSE (v \div 2 ^ k) % 2

\* C15 - unchecked overflow: setTileProp(x, y, f, v) on a valid cell, for any v >= 0
\* and any prior tile t, raises no error and stores the word whose bit b is set iff
\* bit b - offset of v is set or b lies outside the field and is set in t: nothing of
\* v is cut off below bit 32, and every field below f keeps its value.
C15_UncheckedOverflow ==
  (last.op = "setTileProp" /\ ValidCell(last.args[1], last.args[2])) =>
    LET t == last.before[Index(last.args[1], last.args[2])]
        r == data.words[Index(last.args[1], last.args[2])]
        v == last.args[4]
        off == bitScheme[last.args[3]].offset
        len == bitScheme[last.args[3]].length
    IN  /\ pc = "live"
        /\ \A b \in 0..31 :
             r[b + 1] = IF \/ b >= off /\ BitOf(v, b - off) = 1
                           \/ b \notin off..(off + len - 1) /\ t[b + 1] = 1
                          THEN 1 ELSE 0
        /\ \A q \in Properties :
             bitScheme[q].offset < off => getBitValue(r, q) = getBitValue(t, q)

\* 0x1005 was written into entityType of a tile whose entityId had bit 8 clear:
\* the field reads 5 and the excess bit has raised entityId by 256
C15_Witness ==
  /\ last.op = "setTileProp" /\ ValidCell(last.args[1], last.args[2])
  /\ last.args[3] = "entityType" /\ ~InWidth(last.args[3], last.args[4])
  /\ getTileProp(last.args[1], last.args[2], "entityId")
       = getBitValue(last.before[Index(last.args[1], last.args[2])], "entityId") + 256
  /\ getTileProp(last.args[1], last.args[2], "entityType") = 5

\* C16 - remove from a missing layer: remove(e, L) with no layer L returns null,
\* does not throw, creates no layer and changes no layer, and takes the first
\* occurrence of e, if there is one, out of the global list.
C16_RemoveFromMissingLayer ==
  [][ (last'.op = "remove" /\ count'.remove = count.remove + 1
         /\ ~HasLayer(last'.args[2]))
      => /\ ret' = RetNull
         /\ pc' = "live"
         /\ entityLayers' = entityLayers
         /\ IF \E i \in DOMAIN entities : entities[i] = last'.args[1]
              THEN /\ Len(entities') = Len(entities) - 1
                   /\ \E i \in DOMAIN entities :
                        /\ entities[i] = last'.args[1]
                        /\ \A j \in 1..(i - 1) :
                             entities[j] # last'.args[1] /\ entities'[j] = entities[j]
                        /\ \A j \in i..(Len(entities) - 1) : entities'[j] = entities[j + 1]
              ELSE entities' = entities ]_vars

\* remove(e, "A") returned null for want of a layer "A": e is gone from the global
\* list, and the default layer still holds it and still finds it
C16_Witness ==
  /\ pc = "live" /\ last.op = "remove" /\ ret = RetNull
  /\ ~HasLayer(last.args[2])
  /\ last.args[1] \in Members(DEFAULT_LAYER_ID)
  /\ last.args[1] \notin Range(entities)
  /\ last.args[1] \in Range(World_query(FullWorld, DEFAULT_LAYER_ID))

MembersOn(layers, layerId) ==
  IF LayerIndex(layers, layerId) # 0
    THEN Range(layers[LayerIndex(layers, layerId)].entities) ELSE {}

\* C17 - removal and other layers: remove(e, A) of a member e of A leaves every
\* other layer B that holds e as it was (membership set, quadtree, the result of
\* every query), so a query on "ALL" returns e wherever B returns it; and when
\* update() has returned, B and "ALL" return e, standing inside the world, for the
\* whole world.
C17_RemovalLeavesOtherLayers ==
  [][ /\ (last'.op = "remove" /\ count'.remove = count.remove + 1
            /\ last'.args[1] \in Members(last'.args[2]))
         => \A b \in NamedLayers \ {last'.args[2]} :
              last'.args[1] \in Members(b) =>
                /\ LayerIndex(entityLayers', b) # 0
                /\ entityLayers'[LayerIndex(entityLayers', b)] = Layer(b)
                /\ \A range \in Ranges :
                     /\ queryOn(entityLayers', pos', range, b) = World_query(range, b)
                     /\ last'.args[1] \in Range(World_query(range, b))
                          => last'.args[1] \in Range(queryOn(entityLayers', pos', range, "ALL"))
      /\ (last'.op = "update" /\ last.op # "update" /\ pc' = "live")
         => \A m \in removed' : \A b \in NamedLayers \ {m[2]} :
              (m[1] \in MembersOn(entityLayers', b) /\ Inside(pos'[m[1]]))
                => /\ m[1] \in Range(queryOn(entityLayers', pos', FullWorld, b))
                   /\ m[1] \in Range(queryOn(entityLayers', pos', FullWorld, "ALL")) ]_vars

\* update() returned after an entity of two layers was removed from one of them:
\* the other layer, now subdivided or not, and "ALL" still return it
C17_Witness ==
  /\ pc = "live" /\ last.op = "update" /\ Len(entityLayers) = 2
  /\ \E m \in removed : \E b \in NamedLayers \ {m[2]} :
       /\ m[1] \in Members(b) /\ m[1] \notin Members(m[2])
       /\ m[1] \in Range(World_query(FullWorld, b))
       /\ m[1] \notin Range(World_query(FullWorld, m[2]))
       /\ m[1] \in Range(World_query(FullWorld, "ALL"))

\* C18 - queries are read-only: a call of query or nearby, for any range, radius
\* and layer name, leaves the grid, the global list, the layers (names, membership
\* sets, quadtrees) and the positions as they were and does not throw; asked again
\* right away, the same call returns the same result.
C18_QueriesReadOnly ==
  [][ last'.op \in {"query", "nearby"}
      => /\ pc' = pc /\ width' = width /\ height' = height
         /\ data' = data
         /\ entities' = entities
         /\ entityLayers' = entityLayers
         /\ pos' = pos
         /\ ret'.type = "list"
         /\ (last.op = last'.op /\ last.args = last'.args) => ret' = ret ]_vars

\* "B" was asked for while only two other layers exist: the answer is empty and
\* there are still two layers, one of them holding entities
C18_Witness ==
  /\ pc = "live" /\ last.op \in {"query", "nearby"}
  /\ last.args[Len(last.args)] = "B"
  /\ ret = RetList(<<>>)
  /\ Len(entityLayers) = 2 /\ ~HasLayer("B")
  /\ World_query(FullWorld, "ALL") # <<>>

\* C19 - no duplicates within one layer: a query on a named layer returns no entity
\* twice, for every range, after any inserts, removes, moves and updates, also when
\* an entity was inserted into the layer more than once.
C19_NoDuplicates ==
  pc = "live" =>
    \A i \in DOMAIN entityLayers : \A range \in Ranges :
      NoRepetition(World_query(range, entityLayers[i].id))

\* C20 - the global list covers the layers: every member of a layer's membership
\* set occurs in world.entities, whatever removes were called.
C20_ListCoversLayers ==
  pc = "live" =>
    \A i \in DOMAIN entityLayers :
      Range(entityLayers[i].entities) \subseteq Range(entities)

====
